---- MODULE Spec2Model ----
(***************************************************************************)
(* Model of libhuff's code generator (src/codegen/main.rs), which writes   *)
(* src/libcast.huff, and of the Huff macros it emits.                      *)
(*                                                                         *)
(* Text is modelled as TLA+ strings, character for character.  A TLA+      *)
(* string literal cannot hold a backquote, so every backquote of the       *)
(* source's templates is written as an apostrophe; the templates hold no   *)
(* apostrophe, double quote or backslash of their own.                     *)
(***************************************************************************)
EXTENDS Integers, Sequences, FiniteSets, TLC

VARIABLES
    pc,        \* position in main / generate_libcast / generate_cast
    idx,       \* index of the next element of the size array to map
    cast,      \* locals of the running generate_cast call
    blocks,    \* the Vec<String> collected from the map
    joined,    \* generate_libcast's local int_sizes (the joined blocks)
    libcast,   \* generate_libcast's local libcast
    file,      \* src/libcast.huff on disk
    written,   \* bytes of libcast that write_all has handed to the file
    calls,     \* write() calls made by write_all
    outcome,   \* result of generate_libcast, then of main
    evm        \* machine running one emitted macro (SpecEvm only)

vars == <<pc, idx, cast, blocks, joined, libcast, file, written, calls, outcome, evm>>

(***************************************************************************)
(* Strings                                                                 *)
(***************************************************************************)
Min(S) == CHOOSE x \in S : \A y \in S : x <= y

char_at(s, i) == SubSeq(s, i, i)

\* str::match_indices: every place where `from` occurs in s
match_indices(s, from) ==
    {i \in 1..(Len(s) - Len(from) + 1) :
        /\ char_at(s, i) = char_at(from, 1)
        /\ SubSeq(s, i, i + Len(from) - 1) = from}

\* str::replace: leftmost non-overlapping matches, each replaced by `to`
RECURSIVE replace_from(_, _, _, _, _)
replace_from(s, from, to, found, last_end) ==
    LET rest == {i \in found : i >= last_end} IN
    IF rest = {} THEN SubSeq(s, last_end, Len(s))
    ELSE LET start == Min(rest) IN
         SubSeq(s, last_end, start - 1) \o to
             \o replace_from(s, from, to, found, start + Len(from))

\* replaces the first match only
replace_first(s, from, to) ==
    LET found == match_indices(s, from) IN
    IF found = {} THEN s
    ELSE SubSeq(s, 1, Min(found) - 1) \o to \o SubSeq(s, Min(found) + Len(from), Len(s))

replace(s, from, to) == replace_from(s, from, to, match_indices(s, from), 1)

contains(s, pat) == match_indices(s, pat) # {}

\* u16::to_string / format!("{}", size): decimal digits, no sign, no padding
RECURSIVE to_string(_)
to_string(n) ==
    IF n < 10 THEN char_at("0123456789", n + 1)
    ELSE to_string(n \div 10) \o char_at("0123456789", (n % 10) + 1)

\* a separator after every element, the last included
RECURSIVE join_trailing(_, _)
join_trailing(v, sep) ==
    IF Len(v) = 0 THEN "" ELSE v[1] \o sep \o join_trailing(Tail(v), sep)

\* slice::join(sep)
RECURSIVE join(_, _)
join(v, sep) ==
    IF Len(v) = 0 THEN ""
    ELSE IF Len(v) = 1 THEN v[1]
    ELSE v[1] \o sep \o join(Tail(v), sep)

(***************************************************************************)
(* The constant text segments                                              *)
(***************************************************************************)
\* src/codegen/main.rs:59-83
HEADER ==
    "\n" \o
    "//  ------------------------------------------------------------------------------------------------\n" \o
    "//! # Casting Library\n" \o
    "//! \n" \o
    "//! Provides macros for casting values.\n" \o
    "//! \n" \o
    "//! Bit sizes supported range from 8 to 256 inclusive and are multiples of 8.\n" \o
    "//! \n" \o
    "//! Items prefixed with 'UNSAFE_' will not revert on overflow.\n" \o
    "//! \n" \o
    "//! Items prefixed with 'MINI_' will consume more runtime gas to the benefit of a smaller runtime\n" \o
    "//! size.\n" \o
    "//! \n" \o
    "//! ## API\n" \o
    "//! \n" \o
    "//! For a given type, 'TYPENAME':\n" \o
    "//! \n" \o
    "//! - 'TYPENAME_MASK' - Used to downcast a value to a smaller type.\n" \o
    "//! - 'TO_TYPENAME' - Downcasts a value to a smaller type.\n" \o
    "//! - 'UNSAFE_TO_TYPENAME' - Downcasts a value to a smaller type.\n" \o
    "//! - 'MINI_TYPENAME_MASK' - Used to downcast a value to a smaller type.\n" \o
    "//! - 'MINI_TO_TYPENAME' - Downcasts a value to a smaller type.\n" \o
    "//! - 'UNSAFE_MINI_TO_TYPENAME' - Downcasts a value to a smaller type.\n" \o
    "//! \n"

\* src/codegen/main.rs:85-90
ERROR_DEFINITION ==
    "\n" \o
    "/// ## Overflow Error\n" \o
    "/// \n" \o
    "/// Thrown when a cast overflows.\n" \o
    "#define error Overflow()\n"

\* src/codegen/main.rs:92-128
MASK_TEMPLATE ==
    "\n" \o
    "/// ## TYPENAME Mask\n" \o
    "/// \n" \o
    "/// Used to downcast a value to a smaller type.\n" \o
    "/// \n" \o
    "/// ### Usage\n" \o
    "/// \n" \o
    "/// '''huff\n" \o
    "/// #define macro MAIN() = takes (0) returns (0) {\n" \o
    "///     0x00 calldataload\n" \o
    "///     TYPENAME_MASK() and\n" \o
    "/// }\n" \o
    "/// '''\n" \o
    "#define macro TYPENAME_MASK() = takes (0) returns (1) { TYPEMASK }\n" \o
    "\n" \o
    "/// ## TYPENAME Cast\n" \o
    "/// \n" \o
    "/// Downcasts a value to a smaller type.\n" \o
    "/// \n" \o
    "/// The 'UNSAFE_TO_TYPENAME' macro will not revert on overflow.\n" \o
    "#define macro TO_TYPENAME() = takes (1) returns (1) {\n" \o
    "    // takes:               // [value]\n" \o
    "    dup1                    // [value, value]\n" \o
    "    TYPENAME_MASK()         // [mask, value, value]\n" \o
    "    and                     // [masked_value, value]\n" \o
    "    dup2                    // [value, masked_value, value]\n" \o
    "    eq                      // [is_safe, value]\n" \o
    "    is_safe                 // [is_safe_dest, is_safe, value]\n" \o
    "    jumpi                   // [value]\n" \o
    "        __ERROR(Overflow)   // [err]\n" \o
    "        0x00                // [ptr, err]\n" \o
    "        mstore              // []\n" \o
    "        0x04                // [err_len]\n" \o
    "        0x00                // [ptr, err_len]\n" \o
    "        revert              // []\n" \o
    "    is_safe:                // [value]\n" \o
    "}"

\* src/codegen/main.rs:130-159
MINI_MASK_TEMPLATE ==
    "\n" \o
    "\n" \o
    "/// ## Mini TYPENAME Mask\n" \o
    "/// \n" \o
    "/// Used to downcast a value to a smaller type.\n" \o
    "/// \n" \o
    "/// This consumes more runtime gas to the benefit of a smaller runtime size.\n" \o
    "/// \n" \o
    "/// ### Usage\n" \o
    "/// \n" \o
    "/// '''huff\n" \o
    "/// #define macro MAIN() = takes (0) returns (0) {\n" \o
    "///     0x00 calldataload\n" \o
    "///     MINI_TYPENAME_MASK() and\n" \o
    "/// }\n" \o
    "/// '''\n" \o
    "#define macro MINI_TYPENAME_MASK() = takes (0) returns (1) { __MINI_MASK(TYPESIZE) }\n" \o
    "\n" \o
    "/// ## Mini TYPENAME Cast\n" \o
    "/// \n" \o
    "/// Downcasts a value to a smaller type.\n" \o
    "/// \n" \o
    "/// This consumes more runtime gas to the benefit of a smaller runtime size.\n" \o
    "/// \n" \o
    "/// The 'UNSAFE_MINI_TO_TYPENAME' macro will not revert on overflow.\n" \o
    "#define macro UNSAFE_MINI_TO_TYPENAME() = takes (0) returns (0) {\n" \o
    "    // takes:               // [value]\n" \o
    "    MINI_TYPENAME_MASK()         // [mask, value]\n" \o
    "    and                     // [masked_value]\n" \o
    "}"

\* src/codegen/main.rs:161-184
MINI_MASK_DEFINITION ==
    "\n" \o
    "/// ## Mini Mask\n" \o
    "///\n" \o
    "/// Used as a utility to generate the mask\n" \o
    "///\n" \o
    "/// The macro body is functionally equivalent to the following: '2 ** bitsize - 1'\n" \o
    "///\n" \o
    "/// ### Template Arguments\n" \o
    "///\n" \o
    "/// - 'bitsize' - The number of bits to generate a mask for.\n" \o
    "///\n" \o
    "/// ### Usage\n" \o
    "///\n" \o
    "/// '''huff\n" \o
    "/// #define macro MINI_U32_MASK() = takes (0) returns (1) { __MINI_MASK(32)}\n" \o
    "/// '''\n" \o
    "#define macro __MINI_MASK(bitsize) = takes (0) returns (1) {\n" \o
    "    0x01        // [one]\n" \o
    "    dup1        // [one, one]\n" \o
    "    <bitsize>   // [bisize, one, one]\n" \o
    "    shl         // [mask_plus_one, one]\n" \o
    "    sub         // [mask]\n" \o
    "}\n"

(***************************************************************************)
(* Bounds of the model                                                     *)
(***************************************************************************)
\* write() calls that write_all may need before every byte is accepted
MaxWriteCalls == 3

\* bit positions on each side of a byte boundary that the input words exercise
EdgeSlack == 1

\* items of the caller's stack beneath the macro's input
StackBelow == 1

(***************************************************************************)
(* generate_cast                                                           *)
(***************************************************************************)
int_sizes_array ==
    <<8, 16, 24, 32, 40, 48, 56, 64, 72, 80, 88, 96, 104, 112, 120, 128, 136, 144, 152, 160, 168,
      176, 184, 192, 200, 208, 216, 224, 232, 240, 248, 256>>

NoCast == [size |-> 0, name |-> "", mask |-> "", n |-> 0,
           mask_template |-> "", mini_mask_template |-> ""]

\* lines 34-36: name, and mask holding the prefix
cast_enter(size) ==
    [NoCast EXCEPT !.size = size, !.name = "U" \o to_string(size), !.mask = "0x"]

\* lines 38-40: one iteration of the loop over 0..size / 8
\* one iteration too many
cast_loop_cond_inclusive(c) == c.n <= c.size \div 8

cast_loop_cond(c) == c.n < c.size \div 8

\* one hex digit for each byte
cast_loop_body_nibble(c) == [c EXCEPT !.mask = @ \o "f", !.n = @ + 1]

cast_loop_body(c) == [c EXCEPT !.mask = @ \o "ff", !.n = @ + 1]

\* the size in bytes where the size in bits is due
substitute_bytes(template, c) ==
    replace(replace(replace(template, "TYPENAME", c.name), "TYPEMASK", c.mask),
            "TYPESIZE", to_string(c.size \div 8))

\* lines 42-45 and 51-54: the three replacements, in the code's order
substitute(template, c) ==
    replace(replace(replace(template, "TYPENAME", c.name), "TYPEMASK", c.mask),
            "TYPESIZE", to_string(c.size))

cast_mask_template(c) == [c EXCEPT !.mask_template = substitute(MASK_TEMPLATE, c)]

\* the cutoff off by one
cast_is_small_inclusive(c) == c.size <= 32

\* line 47
cast_is_small(c) == c.size < 32

cast_mini_mask_template(c) ==
    [c EXCEPT !.mini_mask_template = substitute(MINI_MASK_TEMPLATE, c)]

\* the shared helper emitted with every block
cast_result_with_helper(c) ==
    (IF c.size < 32 THEN c.mask_template ELSE c.mask_template \o c.mini_mask_template)
        \o MINI_MASK_DEFINITION

\* line 48 or line 56
cast_result(c) ==
    IF cast_is_small(c) THEN c.mask_template
    ELSE c.mask_template \o c.mini_mask_template

RECURSIVE cast_run_loop(_)
cast_run_loop(c) == IF cast_loop_cond(c) THEN cast_run_loop(cast_loop_body(c)) ELSE c

\* generate_cast as a function of its argument
generate_cast(size) ==
    LET c == cast_mask_template(cast_run_loop(cast_enter(size))) IN
    IF cast_is_small(c) THEN cast_result(c)
    ELSE cast_result(cast_mini_mask_template(c))

\* lines 18-24: format!("{}{}{}{}", ...)
format_libcast(int_sizes) == HEADER \o ERROR_DEFINITION \o int_sizes \o MINI_MASK_DEFINITION

(***************************************************************************)
(* main and generate_libcast, step by step                                 *)
(***************************************************************************)
NoFile == [exists |-> FALSE, content |-> ""]

StaleFile == [exists |-> TRUE, content |-> "// stale libcast\n"]

EvmIdle == [status |-> "idle"]

Init ==
    /\ pc = "map"
    /\ idx = 1
    /\ cast = NoCast
    /\ blocks = <<>>
    /\ joined = ""
    /\ libcast = ""
    /\ file \in {NoFile, StaleFile}
    /\ written = 0
    /\ calls = 0
    /\ outcome = "running"
    /\ evm = EvmIdle

\* line 14: the map closure calls generate_cast on the next size
CallGenerateCast ==
    /\ pc = "map"
    /\ idx <= Len(int_sizes_array)
    /\ cast' = cast_enter(int_sizes_array[idx])
    /\ pc' = "mask_loop"
    /\ UNCHANGED <<idx, blocks, joined, libcast, file, written, calls, outcome, evm>>

\* lines 38-40
MaskLoop ==
    /\ pc = "mask_loop"
    /\ cast_loop_cond(cast)
    /\ cast' = cast_loop_body(cast)
    /\ UNCHANGED <<pc, idx, blocks, joined, libcast, file, written, calls, outcome, evm>>

\* lines 42-45
SubstituteMask ==
    /\ pc = "mask_loop"
    /\ ~cast_loop_cond(cast)
    /\ cast' = cast_mask_template(cast)
    /\ pc' = "branch"
    /\ UNCHANGED <<idx, blocks, joined, libcast, file, written, calls, outcome, evm>>

\* lines 47-49: return the mandatory section alone; collect() pushes it
ReturnMask ==
    /\ pc = "branch"
    /\ cast_is_small(cast)
    /\ blocks' = Append(blocks, cast_result(cast))
    /\ idx' = idx + 1
    /\ pc' = "map"
    /\ UNCHANGED <<cast, joined, libcast, file, written, calls, outcome, evm>>

\* lines 51-56: substitute the mini template and return both; collect() pushes it
ReturnMaskAndMini ==
    /\ pc = "branch"
    /\ ~cast_is_small(cast)
    /\ cast' = cast_mini_mask_template(cast)
    /\ blocks' = Append(blocks, cast_result(cast'))
    /\ idx' = idx + 1
    /\ pc' = "map"
    /\ UNCHANGED <<joined, libcast, file, written, calls, outcome, evm>>

\* lines 15-16: the array is exhausted; join the collected blocks
Join ==
    /\ pc = "map"
    /\ idx > Len(int_sizes_array)
    /\ joined' = join(blocks, "\n")
    /\ pc' = "format"
    /\ UNCHANGED <<idx, cast, blocks, libcast, file, written, calls, outcome, evm>>

\* lines 18-24
Format ==
    /\ pc = "format"
    /\ libcast' = format_libcast(joined)
    /\ pc' = "create"
    /\ UNCHANGED <<idx, cast, blocks, joined, file, written, calls, outcome, evm>>

\* line 26: File::create succeeds: the file is created, or truncated if it exists
CreateOk ==
    /\ pc = "create"
    /\ file' = [exists |-> TRUE, content |-> ""]
    /\ pc' = "write_all"
    /\ UNCHANGED <<idx, cast, blocks, joined, libcast, written, calls, outcome, evm>>

\* line 26: File::create fails; `?` returns the error
CreateErr ==
    /\ pc = "create"
    /\ outcome' = "Err"
    /\ pc' = "returned"
    /\ UNCHANGED <<idx, cast, blocks, joined, libcast, file, written, calls, evm>>

\* line 28: write_all calls write, which accepts all the remaining bytes or,
\* a short write, only some of them
Write ==
    /\ pc = "write_all"
    /\ written < Len(libcast)
    /\ \E n \in {Len(libcast) - written} \cup
                IF calls + 1 < MaxWriteCalls
                THEN {(Len(libcast) - written) \div 2} ELSE {} :
        /\ file' = [file EXCEPT !.content = @ \o SubSeq(libcast, written + 1, written + n)]
        /\ written' = written + n
    /\ calls' = calls + 1
    /\ UNCHANGED <<pc, idx, cast, blocks, joined, libcast, outcome, evm>>

\* line 28: a write fails; `?` returns the error and f is dropped
WriteErr ==
    /\ pc = "write_all"
    /\ written < Len(libcast)
    /\ outcome' = "Err"
    /\ pc' = "returned"
    /\ UNCHANGED <<idx, cast, blocks, joined, libcast, file, written, calls, evm>>

\* lines 28-30: every byte is written; f is dropped and Ok(()) returned
ReturnOk ==
    /\ pc = "write_all"
    /\ written = Len(libcast)
    /\ outcome' = "Ok"
    /\ pc' = "returned"
    /\ UNCHANGED <<idx, cast, blocks, joined, libcast, file, written, calls, evm>>

\* line 5: unwrap panics on Err
MainUnwrap ==
    /\ pc = "returned"
    /\ outcome' = IF outcome = "Ok" THEN "exit" ELSE "panic"
    /\ pc' = "done"
    /\ UNCHANGED <<idx, cast, blocks, joined, libcast, file, written, calls, evm>>

Next ==
    \/ CallGenerateCast
    \/ MaskLoop
    \/ SubstituteMask
    \/ ReturnMask
    \/ ReturnMaskAndMini
    \/ Join
    \/ Format
    \/ CreateOk
    \/ CreateErr
    \/ Write
    \/ WriteErr
    \/ ReturnOk
    \/ MainUnwrap

Spec == Init /\ [][Next]_vars

(***************************************************************************)
(* Reading the generated text: the macros a text defines.  A definition    *)
(* starts a line with "#define macro"; the same words inside a doc comment *)
(* ("/// #define macro MAIN() ...") define nothing.                        *)
(***************************************************************************)
DefineMacro == "\n#define macro "

RECURSIVE scan_to(_, _, _)
scan_to(text, j, ch) ==
    IF j > Len(text) \/ char_at(text, j) = ch THEN j ELSE scan_to(text, j + 1, ch)

macro_defs(text) == match_indices(text, DefineMacro)

macro_name_at(text, i) ==
    SubSeq(text, i + Len(DefineMacro), scan_to(text, i + Len(DefineMacro), "(") - 1)

macro_names(text) == {macro_name_at(text, i) : i \in macro_defs(text)}

defs_named(text, name) == {i \in macro_defs(text) : macro_name_at(text, i) = name}

Placeholders == {"TYPENAME", "TYPEMASK", "TYPESIZE"}

\* the block generate_cast returned last, and the width it was called with
LastBlock == blocks[idx - 1]

LastWidth == int_sizes_array[idx - 1]

BlockReturned == pc = "map" /\ idx > 1

(***************************************************************************)
(* Claims about the generator (specification Spec)                         *)
(***************************************************************************)

\* C1: when generate_cast's loop is over, mask is "0x" followed by size/8
\* repetitions of "ff" and nothing else, so it is 2 + size/4 characters long
\* (0xff for 8, 10 characters for 32, 66 for 256), and name is "U" followed by
\* the decimal of size; size is a multiple of 8 from 8 to 256.
C1_MaskAndName ==
    pc = "branch" =>
        /\ cast.size \in {8 * k : k \in 1..32}
        /\ Len(cast.mask) = 2 + cast.size \div 4
        /\ SubSeq(cast.mask, 1, 2) = "0x"
        /\ \A i \in 3..Len(cast.mask) : char_at(cast.mask, i) = "f"
        /\ cast.name = "U" \o ToString(cast.size)
        /\ (cast.size = 8 => cast.mask = "0xff")
        /\ (cast.size = 32 => cast.mask = "0xffffffff" /\ Len(cast.mask) = 10)
        /\ (cast.size = 256 => Len(cast.mask) = 66)

C1_Witness ==
    pc = "branch" /\ cast.size = 256 /\ Len(cast.mask) = 66 /\ cast.name = "U256"

\* C2: the block generate_cast returns holds the mini section iff size >= 32:
\* below 32 the names MINI_U{w}_MASK and UNSAFE_MINI_TO_U{w} do not occur in it;
\* from 32 on it defines MINI_U{w}_MASK exactly once, with body __MINI_MASK(w),
\* and UNSAFE_MINI_TO_U{w} exactly once, both directly after the mandatory
\* section.
C2_MiniIffAtLeast32 ==
    BlockReturned =>
        LET w == ToString(LastWidth)
            mini_mask == "MINI_U" \o w \o "_MASK"
            mini_cast == "UNSAFE_MINI_TO_U" \o w
            mandatory == Len(cast.mask_template)
        IN  IF LastWidth < 32
            THEN /\ ~contains(LastBlock, mini_mask)
                 /\ ~contains(LastBlock, mini_cast)
                 /\ LastBlock = cast.mask_template
            ELSE /\ Cardinality(defs_named(LastBlock, mini_mask)) = 1
                 /\ Cardinality(defs_named(LastBlock, mini_cast)) = 1
                 /\ contains(LastBlock,
                        DefineMacro \o mini_mask \o "() = takes (0) returns (1) { __MINI_MASK("
                            \o w \o ") }\n")
                 /\ SubSeq(LastBlock, 1, mandatory) = cast.mask_template
                 /\ \A i \in defs_named(LastBlock, mini_mask) \cup defs_named(LastBlock, mini_cast) :
                        i > mandatory
                 /\ Cardinality({i \in macro_defs(LastBlock) : i > mandatory}) = 2
                 /\ SubSeq(LastBlock, mandatory + 1, mandatory + Len("\n\n/// ## Mini U" \o w))
                        = "\n\n/// ## Mini U" \o w

C2_Witness ==
    /\ BlockReturned
    /\ LastWidth = 32
    /\ macro_names(LastBlock) = {"U32_MASK", "TO_U32", "MINI_U32_MASK", "UNSAFE_MINI_TO_U32"}
    /\ Len(blocks) >= 3
    /\ ~contains(blocks[3], "MINI_U24_MASK")

\* C3: the mandatory section defines three macros: the mask accessor U{w}_MASK,
\* the checked downcast TO_U{w} and the unchecked downcast UNSAFE_TO_U{w}.
C3_ThreeMandatoryMacros ==
    pc = "branch" =>
        macro_names(cast.mask_template)
            = {cast.name \o "_MASK", "TO_" \o cast.name, "UNSAFE_TO_" \o cast.name}

\* C4: in the document every macro name that a definition introduces is
\* introduced once: no two widths share a name, no block defines a name twice,
\* and __MINI_MASK is defined once.
C4_UniqueMacroNames ==
    pc \in {"create", "write_all", "returned", "done"} =>
        LET defs == macro_defs(libcast)
            name == [i \in defs |-> macro_name_at(libcast, i)]
        IN  /\ \A i, j \in defs : name[i] = name[j] => i = j
            /\ Cardinality({i \in defs : name[i] = "__MINI_MASK"}) = 1

C4_Witness ==
    /\ pc = "create"
    /\ Cardinality(macro_defs(libcast)) = 123
    /\ {"U8_MASK", "TO_U8", "MINI_U256_MASK", "UNSAFE_MINI_TO_U256", "__MINI_MASK"}
           \subseteq macro_names(libcast)

\* C5: the document is HEADER, then ERROR_DEFINITION, then one block per width
\* in the order 8, 16, ..., 256 with a single newline between consecutive
\* blocks and none before the first or after the last, then
\* MINI_MASK_DEFINITION; "__MINI_MASK(bitsize)" occurs once, after the block of
\* width 256.
RECURSIVE block_end(_)
block_end(k) ==
    IF k = 0 THEN Len(HEADER) + Len(ERROR_DEFINITION)
    ELSE block_end(k - 1) + (IF k > 1 THEN 1 ELSE 0) + Len(blocks[k])

C5_DocumentLayout ==
    pc \in {"create", "write_all", "returned", "done"} =>
        /\ Len(blocks) = 32
        /\ \A k \in 1..32 :
              /\ macro_names(blocks[k]) \cap {"U" \o ToString(8 * j) \o "_MASK" : j \in 1..32}
                    = {"U" \o ToString(8 * k) \o "_MASK"}
              /\ SubSeq(libcast, block_end(k) - Len(blocks[k]) + 1, block_end(k)) = blocks[k]
              /\ k > 1 => /\ block_end(k) - Len(blocks[k]) = block_end(k - 1) + 1
                          /\ char_at(libcast, block_end(k - 1) + 1) = "\n"
        /\ SubSeq(libcast, 1, Len(HEADER)) = HEADER
        /\ SubSeq(libcast, Len(HEADER) + 1, block_end(0)) = ERROR_DEFINITION
        /\ block_end(1) - Len(blocks[1]) = block_end(0)
        /\ SubSeq(libcast, block_end(32) + 1, Len(libcast)) = MINI_MASK_DEFINITION
        /\ Len(libcast) = block_end(32) + Len(MINI_MASK_DEFINITION)
        /\ Cardinality(match_indices(libcast, "__MINI_MASK(bitsize)")) = 1
        /\ \A i \in match_indices(libcast, "__MINI_MASK(bitsize)") : i > block_end(32)

C5_Witness ==
    /\ pc = "create"
    /\ Len(blocks) = 32
    /\ contains(blocks[32], "TO_U256")
    /\ Len(libcast) > block_end(32)

\* C6: when creating or writing the destination fails, the destination holds
\* either the complete document or what it held before the run.
C6_NoPartialFile ==
    (pc \in {"returned", "done"} /\ outcome \in {"Err", "panic"}) =>
        \/ file \in {NoFile, StaleFile}
        \/ file = [exists |-> TRUE, content |-> libcast]

\* C9: the three replacements leave none of TYPENAME, TYPEMASK, TYPESIZE in the
\* text generate_cast returns, and applying them in any of the six orders
\* gives the text the code's order gives.
Replacements(c) ==
    <<  <<"TYPENAME", c.name>>, <<"TYPEMASK", c.mask>>, <<"TYPESIZE", to_string(c.size)>>  >>

Orders == {o \in [1..3 -> 1..3] : \A a, b \in 1..3 : o[a] = o[b] => a = b}

substitute_in_order(template, c, o) ==
    LET r == Replacements(c) IN
    replace(replace(replace(template, r[o[1]][1], r[o[1]][2]),
                    r[o[2]][1], r[o[2]][2]),
            r[o[3]][1], r[o[3]][2])

C9_SubstitutionComplete ==
    /\ pc = "branch" =>
          /\ \A ph \in Placeholders : ~contains(cast.mask_template, ph)
          /\ \A o \in Orders :
                substitute_in_order(MASK_TEMPLATE, cast, o) = cast.mask_template
    /\ BlockReturned =>
          /\ \A ph \in Placeholders : ~contains(LastBlock, ph)
          /\ ~cast_is_small(cast) =>
                \A o \in Orders :
                    substitute_in_order(MINI_MASK_TEMPLATE, cast, o) = cast.mini_mask_template

C9_Witness ==
    /\ BlockReturned
    /\ LastWidth = 256
    /\ Cardinality(match_indices(MASK_TEMPLATE, "TYPENAME")) > 1
    /\ Cardinality(match_indices(LastBlock, "U256")) > 1
    /\ contains(LastBlock, cast.mask)
    /\ contains(LastBlock, "__MINI_MASK(256)")
    /\ Cardinality(Orders) = 6

(***************************************************************************)
(* The emitted macros.  The document is read back the way the Huff         *)
(* compiler reads it: a macro definition is looked up by name, its body is *)
(* stripped of comments and split into tokens, invocations are expanded in *)
(* line, and the resulting opcodes run on a stack machine with 256-bit     *)
(* words.  A word is the set of its one bits (bit 0 the least significant),*)
(* which keeps every operation exact at the full width.                    *)
(***************************************************************************)
\* generate_libcast's document as a function of nothing (lines 9-24)
Document ==
    format_libcast(join([k \in 1..Len(int_sizes_array) |-> generate_cast(int_sizes_array[k])],
                        "\n"))

RECURSIVE sorted(_)
sorted(S) == IF S = {} THEN <<>> ELSE <<Min(S)>> \o sorted(S \ {Min(S)})

index_of(s, pat, from) == Min({k \in match_indices(s, pat) : k >= from} \cup {Len(s) + 1})

split(s, sep) ==
    LET cuts == <<0>> \o sorted(match_indices(s, sep)) \o <<Len(s) + 1>> IN
    [k \in 1..(Len(cuts) - 1) |-> SubSeq(s, cuts[k] + 1, cuts[k + 1] - 1)]

RECURSIVE flatten(_)
flatten(ss) == IF ss = <<>> THEN <<>> ELSE Head(ss) \o flatten(Tail(ss))

strip_comment(line) == SubSeq(line, 1, index_of(line, "//", 1) - 1)

is_nonempty(t) == t # ""

tokens(body) ==
    LET lines == split(body, "\n") IN
    flatten([k \in 1..Len(lines) |-> SelectSeq(split(strip_comment(lines[k]), " "), is_nonempty)])

RECURSIVE parse_nat(_)
parse_nat(s) ==
    IF s = "" THEN 0
    ELSE 10 * parse_nat(SubSeq(s, 1, Len(s) - 1))
            + Min({d \in 0..9 : char_at("0123456789", d + 1) = char_at(s, Len(s))})

\* "#define macro NAME(PARAM) = takes (N) returns (M) { BODY }" starting at i
macro_decl(text, i) ==
    LET next == index_of(text, DefineMacro, i + 1)
        def == SubSeq(text, i, next - 1)
        p_open == index_of(def, "(", 1)
        p_close == index_of(def, ")", p_open)
        t_open == index_of(def, "(", p_close)
        t_close == index_of(def, ")", t_open)
        r_open == index_of(def, "(", t_close)
        r_close == index_of(def, ")", r_open)
        b_open == index_of(def, "{", r_close)
        b_close == index_of(def, "}", b_open)
    IN  [name |-> SubSeq(def, Len(DefineMacro) + 1, p_open - 1),
         param |-> SubSeq(def, p_open + 1, p_close - 1),
         takes |-> parse_nat(SubSeq(def, t_open + 1, t_close - 1)),
         returns |-> parse_nat(SubSeq(def, r_open + 1, r_close - 1)),
         body |-> tokens(SubSeq(def, b_open + 1, b_close - 1))]

MacroDecls == {macro_decl(Document, i) : i \in macro_defs(Document)}

MacroTable == [name \in {d.name : d \in MacroDecls} |->
                  CHOOSE d \in MacroDecls : d.name = name]

Opcodes == {"dup1", "dup2", "and", "eq", "jumpi", "mstore", "revert", "shl", "sub"}

Zero == {}

One == {0}

hex_digit(ch) == Min({d \in 0..15 : char_at("0123456789abcdef", d + 1) = ch})

\* the word a literal 0x... pushes
literal_word(lit) ==
    LET n == Len(lit) - 2 IN
    {bit \in 0..(4 * n - 1) :
        (hex_digit(char_at(lit, Len(lit) - bit \div 4)) \div (2 ^ (bit % 4))) % 2 = 1}

\* the word of a number below 2^16, and back
nat_word(n) == {bit \in 0..15 : (n \div (2 ^ bit)) % 2 = 1}

RECURSIVE word_nat(_)
word_nat(w) == IF w = {} THEN 0 ELSE 2 ^ Min(w) + word_nat(w \ {Min(w)})

is_small_word(w) == \A bit \in w : bit < 16

\* line 89 and line 121: __ERROR(Overflow) pushes the four bytes of the
\* selector of Overflow(), 0x35278d12, followed by 28 zero bytes
error_word(name) ==
    IF name = "Overflow" THEN {bit + 224 : bit \in literal_word("0x35278d12")} ELSE Zero

instr(op, word, label) == [op |-> op, word |-> word, label |-> label]

is_invocation(t) == contains(t, "(")

invoked_name(t) == SubSeq(t, 1, index_of(t, "(", 1) - 1)

invoked_arg(t) == SubSeq(t, index_of(t, "(", 1) + 1, index_of(t, ")", 1) - 1)

\* a macro's body with every invocation expanded in line; arg is the
\* argument of the invocation being expanded
RECURSIVE expand(_, _)
expand(name, arg) ==
    LET body == MacroTable[name].body
        one(t) ==
            IF SubSeq(t, 1, 2) = "0x" THEN <<instr("push", literal_word(t), "")>>
            ELSE IF t \in Opcodes THEN <<instr(t, Zero, "")>>
            ELSE IF char_at(t, 1) = "<" THEN <<instr("push", nat_word(parse_nat(arg)), "")>>
            ELSE IF char_at(t, Len(t)) = ":"
                THEN <<instr("jumpdest", Zero, SubSeq(t, 1, Len(t) - 1))>>
            ELSE IF is_invocation(t) /\ invoked_name(t) = "__ERROR"
                THEN <<instr("push", error_word(invoked_arg(t)), "")>>
            ELSE IF is_invocation(t) THEN expand(invoked_name(t), invoked_arg(t))
            ELSE <<instr("pushlabel", Zero, t)>>
    IN  flatten([k \in 1..Len(body) |-> one(body[k])])

(***************************************************************************)
(* The machine                                                             *)
(***************************************************************************)
AllOnes == 0..255

\* bit positions next to a byte boundary
Edges == {n \in 0..255 : n % 8 < EdgeSlack \/ n % 8 >= 8 - EdgeSlack}

Inputs ==
    {0..(n - 1) : n \in Edges \cup {256}} \cup {{n} : n \in Edges}

Kinds == {"MASK", "TO", "MINI_MASK", "UNSAFE_MINI_TO", "HELPER"}

kind_name(kind, size) ==
    LET u == "U" \o to_string(size) IN
    CASE kind = "MASK" -> u \o "_MASK"
      [] kind = "TO" -> "TO_" \o u
      [] kind = "MINI_MASK" -> "MINI_" \o u \o "_MASK"
      [] kind = "UNSAFE_MINI_TO" -> "UNSAFE_MINI_TO_" \o u
      [] kind = "HELPER" -> "__MINI_MASK"

\* every emitted macro, expanded once
Programs ==
    [kind \in Kinds |->
        [size \in {s \in {int_sizes_array[k] : k \in 1..Len(int_sizes_array)} :
                      kind_name(kind, s) \in DOMAIN MacroTable} |->
            expand(kind_name(kind, size), to_string(size))]]

InitEvm ==
    /\ pc = "map"
    /\ idx = 1
    /\ cast = NoCast
    /\ blocks = <<>>
    /\ joined = ""
    /\ libcast = ""
    /\ file = NoFile
    /\ written = 0
    /\ calls = 0
    /\ outcome = "running"
    /\ \E kind \in Kinds : \E size \in DOMAIN Programs[kind] : \E v \in Inputs :
          evm = [status |-> "running",
                 kind |-> kind,
                 size |-> size,
                 prog |-> Programs[kind][size],
                 ip |-> 1,
                 stack0 |-> <<v>> \o [k \in 1..StackBelow |-> AllOnes],
                 stack |-> <<v>> \o [k \in 1..StackBelow |-> AllOnes],
                 untouched |-> 1 + StackBelow,
                 memory |-> <<>>,
                 returndata |-> <<>>,
                 jumped |-> FALSE]

Running == evm.status = "running" /\ evm.ip <= Len(evm.prog)

Current == evm.prog[evm.ip]

\* an instruction that reads the top `depth` items, pops the top `pops` of
\* them and pushes `pushed`
stack_step(e, depth, pops, pushed) ==
    IF Len(e.stack) < depth THEN [e EXCEPT !.status = "underflow"]
    ELSE [e EXCEPT !.stack = pushed \o SubSeq(e.stack, pops + 1, Len(e.stack)),
                   !.untouched = IF Len(e.stack) - depth < @ THEN Len(e.stack) - depth ELSE @,
                   !.ip = @ + 1]

top(e, k) == IF k <= Len(e.stack) THEN e.stack[k] ELSE Zero

Same == UNCHANGED <<pc, idx, cast, blocks, joined, libcast, file, written, calls, outcome>>

\* a literal, a macro argument or an error selector
Push ==
    /\ Running /\ Current.op = "push"
    /\ evm' = stack_step(evm, 0, 0, <<Current.word>>)
    /\ Same

label_index(prog, label) ==
    Min({k \in 1..Len(prog) : prog[k].op = "jumpdest" /\ prog[k].label = label})

\* line 119: a label pushes its jump destination
PushLabel ==
    /\ Running /\ Current.op = "pushlabel"
    /\ evm' = stack_step(evm, 0, 0, <<nat_word(label_index(evm.prog, Current.label))>>)
    /\ Same

\* lines 114, 179 (dup1) and 117 (dup2)
Dup ==
    /\ Running /\ Current.op \in {"dup1", "dup2"}
    /\ LET n == IF Current.op = "dup1" THEN 1 ELSE 2 IN
       evm' = stack_step(evm, n, 0, <<top(evm, n)>>)
    /\ Same

\* lines 116, 158
And ==
    /\ Running /\ Current.op = "and"
    /\ evm' = stack_step(evm, 2, 2, <<top(evm, 1) \cap top(evm, 2)>>)
    /\ Same

\* line 118
Eq ==
    /\ Running /\ Current.op = "eq"
    /\ evm' = stack_step(evm, 2, 2, <<IF top(evm, 1) = top(evm, 2) THEN One ELSE Zero>>)
    /\ Same

shl(shift, value) ==
    IF \E bit \in shift : bit >= 8 THEN Zero
    ELSE {bit + word_nat(shift) : bit \in value} \cap AllOnes

\* line 181
Shl ==
    /\ Running /\ Current.op = "shl"
    /\ evm' = stack_step(evm, 2, 2, <<shl(top(evm, 1), top(evm, 2))>>)
    /\ Same

\* a - b modulo 2^256: bit i borrows when, at the highest lower bit where a
\* and b differ, a has the 0
Max(S) == CHOOSE x \in S : \A y \in S : x >= y

sub(a, b) ==
    LET differ == (a \ b) \cup (b \ a)
        borrow(i) ==
            LET below == {k \in differ : k < i} IN
            below # {} /\ Max(below) \in b
    IN  {i \in AllOnes : ((i \in a) # (i \in b)) # borrow(i)}

\* line 182
Sub ==
    /\ Running /\ Current.op = "sub"
    /\ evm' = stack_step(evm, 2, 2, <<sub(top(evm, 1), top(evm, 2))>>)
    /\ Same

\* line 120: jump to the destination when the condition is not zero
Jumpi ==
    /\ Running /\ Current.op = "jumpi"
    /\ LET dest == top(evm, 1)
           taken == top(evm, 2) # Zero
           e == stack_step(evm, 2, 2, <<>>)
       IN  evm' = IF e.status = "underflow" \/ ~taken THEN e
                  ELSE IF is_small_word(dest) /\ word_nat(dest) \in 1..Len(evm.prog)
                          /\ evm.prog[word_nat(dest)].op = "jumpdest"
                       THEN [e EXCEPT !.ip = word_nat(dest), !.jumped = TRUE]
                  ELSE [e EXCEPT !.status = "invalid_jump"]
    /\ Same

\* line 127
Jumpdest ==
    /\ Running /\ Current.op = "jumpdest"
    /\ evm' = [evm EXCEPT !.ip = @ + 1]
    /\ Same

\* byte k (0 the most significant) of a word
word_byte(w, k) == word_nat({bit - 8 * (31 - k) : bit \in w \cap (8 * (31 - k))..(8 * (31 - k) + 7)})

\* memory grown with zero bytes to hold `size` bytes, in whole words
grown(memory, size) ==
    IF size <= Len(memory) THEN memory
    ELSE [k \in 1..(32 * ((size + 31) \div 32)) |-> IF k <= Len(memory) THEN memory[k] ELSE 0]

\* line 123
Mstore ==
    /\ Running /\ Current.op = "mstore"
    /\ LET e == stack_step(evm, 2, 2, <<>>)
           ptr == top(evm, 1)
       IN  evm' = IF e.status = "underflow" THEN e
                  ELSE IF ~is_small_word(ptr) THEN [e EXCEPT !.status = "out_of_gas"]
                  ELSE LET at == word_nat(ptr)
                           m == grown(evm.memory, at + 32)
                       IN  [e EXCEPT !.memory =
                               [k \in 1..Len(m) |->
                                   IF k > at /\ k <= at + 32
                                   THEN word_byte(top(evm, 2), k - at - 1) ELSE m[k]]]
    /\ Same

\* line 126
Revert ==
    /\ Running /\ Current.op = "revert"
    /\ LET e == stack_step(evm, 2, 2, <<>>)
           ptr == top(evm, 1)
           len == top(evm, 2)
       IN  evm' = IF e.status = "underflow" THEN e
                  ELSE IF ~is_small_word(ptr) \/ ~is_small_word(len)
                       THEN [e EXCEPT !.status = "out_of_gas"]
                  ELSE LET m == IF word_nat(len) = 0 THEN evm.memory
                                ELSE grown(evm.memory, word_nat(ptr) + word_nat(len))
                       IN  [e EXCEPT !.status = "reverted",
                                     !.memory = m,
                                     !.returndata =
                                         SubSeq(m, word_nat(ptr) + 1, word_nat(ptr) + word_nat(len))]
    /\ Same

\* the end of the macro's body
Finish ==
    /\ evm.status = "running" /\ evm.ip > Len(evm.prog)
    /\ evm' = [evm EXCEPT !.status = "finished"]
    /\ Same

NextEvm ==
    \/ Push
    \/ PushLabel
    \/ Dup
    \/ And
    \/ Eq
    \/ Shl
    \/ Sub
    \/ Jumpi
    \/ Jumpdest
    \/ Mstore
    \/ Revert
    \/ Finish

SpecEvm == InitEvm /\ [][NextEvm]_vars

(***************************************************************************)
(* Claims about the emitted macros (specification SpecEvm)                 *)
(***************************************************************************)
Input == evm.stack0[1]

Declared == MacroTable[kind_name(evm.kind, evm.size)]

OverflowSelector == <<53, 39, 141, 18>>

\* C7: TO_U{w} run with v on top of the stack reverts with the selector of
\* Overflow() stored at memory offset 0 and returned as 4 bytes iff v has a one
\* bit at position w or above, that is iff v AND (2^w - 1) differs from v;
\* otherwise it jumps to is_safe, leaves memory untouched and ends with the
\* stack as it found it, v on top.  For w = 256 it never reverts.
C7_CheckedCast ==
    (evm.status \notin {"idle", "running"} /\ evm.kind = "TO") =>
        LET overflow == \E bit \in Input : bit >= evm.size IN
        /\ overflow <=> (Input \cap 0..(evm.size - 1)) # Input
        /\ IF overflow
           THEN /\ evm.status = "reverted"
                /\ ~evm.jumped
                /\ evm.returndata = OverflowSelector
                /\ SubSeq(evm.memory, 1, 4) = OverflowSelector
           ELSE /\ evm.status = "finished"
                /\ evm.jumped
                /\ evm.memory = <<>>
                /\ evm.stack = evm.stack0
        /\ evm.size = 256 => evm.status = "finished"

C7_Witness ==
    /\ evm.status = "reverted"
    /\ evm.kind = "TO"
    /\ evm.size = 248
    /\ Input = {248}
    /\ evm.returndata = OverflowSelector

\* C8: for every width from 32 to 256, MINI_U{w}_MASK, that is the body of
\* __MINI_MASK with bitsize w, leaves 2^w - 1 on the stack, the value the
\* literal of U{w}_MASK has and U{w}_MASK leaves; for w = 256 the shift gives 0
\* and the subtraction wraps to 2^256 - 1.
C8_MiniMaskValue ==
    /\ (evm.status \notin {"idle", "running"} /\ evm.kind \in {"MINI_MASK", "MASK"}) =>
          /\ evm.status = "finished"
          /\ Head(evm.stack) = 0..(evm.size - 1)
          /\ Tail(evm.stack) = evm.stack0
    /\ (evm.status = "finished" /\ evm.kind = "MINI_MASK") =>
          /\ evm.size >= 32
          /\ Len(MacroTable[kind_name("MASK", evm.size)].body) = 1
          /\ Head(evm.stack) = literal_word(MacroTable[kind_name("MASK", evm.size)].body[1])
          /\ Len(evm.prog) = 5

C8_Witness ==
    /\ evm.status = "finished"
    /\ evm.kind = "MINI_MASK"
    /\ evm.size = 256
    /\ Head(evm.stack) = AllOnes

\* C10: a macro's body, run to its end, has read exactly as many items of
\* the caller's stack as its definition declares it takes, and leaves as many
\* in their place as it declares it returns.
C10_DeclaredArity ==
    evm.status = "finished" =>
        /\ Len(evm.stack0) - evm.untouched = Declared.takes
        /\ Len(evm.stack) - evm.untouched = Declared.returns

====
